---- MODULE Spec2Model ----
(***************************************************************************)
(* Progress tracking of yt-courses: the IndexedDB store (lib/db.ts, the    *)
(* composite-key revision) and the CoursesProvider operations              *)
(* (contexts/CoursesContext, the revision that checks for an existing      *)
(* course), as a state machine.  Every await on the store is a step of    *)
(* its handler, so handlers of different calls interleave between awaits.  *)
(***************************************************************************)
EXTENDS Integers, Sequences, FiniteSets, TLC

\* ---------------------------------------------------------------- bounds
\* The clock runs from 0 to MaxTime.
MaxTime == 1

\* Operations called in one behaviour.
MaxCalls == 2

\* ------------------------------------------------------------ the data
\* The handlers that can be in flight at once.
Procs == {1, 2}

CourseIds == {"c1", "c2"}

VideoIds == {"v1", "v2"}

\* The order of keys in an index: ids compare as strings.
IdOrder == <<"c1", "c2", "c3", "v1", "v2", "v3">>

IdRank(x) == CHOOSE i \in 1..Len(IdOrder) : IdOrder[i] = x

\* An optional timestamp that is absent (lastWatched?: string).
NoTime == -1

\* The absent Course (db.get resolves to undefined).
NoCourse == [id |-> "-"]

\* The absent VideoProgress.
NoProgress == [videoId |-> "-"]

\* A Video of a playlist; only the fields the provider reads.
Video(v) == [id |-> v, duration |-> 100]

\* The video lists a playlist can have when it is fetched.
VideoLists == {<< >>, <<Video("v1"), Video("v2")>>}

\* The Course getCourseFromPlaylist builds at time t: no lastWatched.
NewCourse(c, vs, t) ==
    [id |-> c, videos |-> vs, createdAt |-> t, lastWatched |-> NoTime]

\* Positions a player can report.
CurrentTimes == {50, 96}

Range(s) == {s[i] : i \in 1..Len(s)}

\* ------------------------------------------------------- the store (db)
\* keyPath of the videoProgress object store.
KeyVideoOnly(r) == <<r.videoId>>

KeyOf(r) == <<r.videoId, r.courseId>>

\* Array keys compare element by element.
KeyLess(a, b) ==
    \/ IdRank(a[1]) < IdRank(b[1])
    \/ /\ a[1] = b[1]
       /\ Len(a) > 1
       /\ Len(b) > 1
       /\ IdRank(a[2]) < IdRank(b[2])

\* A record inserted at its place in key order.
InsertByKey(tbl, r) ==
    LET before == SelectSeq(tbl, LAMBDA x : ~KeyLess(KeyOf(r), KeyOf(x)))
        after  == SelectSeq(tbl, LAMBDA x : KeyLess(KeyOf(r), KeyOf(x)))
    IN  before \o <<r>> \o after

PutNoReplace(tbl, r) == InsertByKey(tbl, r)

\* db.put('videoProgress', r): insert, or replace the record under r's key.
PutProgress(tbl, r) ==
    InsertByKey(SelectSeq(tbl, LAMBDA x : KeyOf(x) # KeyOf(r)), r)

\* db.get('videoProgress', IDBKeyRange.only([videoId, courseId])).
GetVideoProgress(tbl, v, c) ==
    LET hit == SelectSeq(tbl, LAMBDA x : KeyOf(x) = <<v, c>>)
    IN  IF Len(hit) = 0 THEN NoProgress ELSE hit[1]

\* index('by-course').getAll(id).
GetVideoProgressByCourse(tbl, c) == SelectSeq(tbl, LAMBDA x : x.courseId = c)

DeleteByVideoId(tbl, c) ==
    LET gone == {x.videoId : x \in Range(GetVideoProgressByCourse(tbl, c))}
    IN  SelectSeq(tbl, LAMBDA x : x.videoId \notin gone)

\* The second transaction of db.deleteCourse: every record of the by-course
\* index under id is deleted by its key.
DeleteProgressOf(tbl, c) ==
    LET gone == {KeyOf(x) : x \in Range(GetVideoProgressByCourse(tbl, c))}
    IN  SelectSeq(tbl, LAMBDA x : KeyOf(x) \notin gone)

\* ------------------------------------------- the derived views (provider)
\* ---- numbers are IEEE 754 doubles.  A double x > 0 is [e, l]:
\* x = (1 + l[1]/B + l[2]/B^2 + l[3]/B^3 + l[4]/B^4) * 2^e with B = 2^13,
\* the 52 bits after the leading one in four limbs of 13 bits.
LimbBits == 13

RECURSIVE Pow2(_)
Pow2(k) == IF k = 0 THEN 1 ELSE 2 * Pow2(k - 1)

Limb == Pow2(LimbBits)

\* The double next above x.
NextUp(x) ==
    LET l == x.l
    IN  IF l[4] + 1 < Limb THEN [x EXCEPT !.l[4] = l[4] + 1]
        ELSE IF l[3] + 1 < Limb THEN [x EXCEPT !.l = <<l[1], l[2], l[3] + 1, 0>>]
        ELSE IF l[2] + 1 < Limb THEN [x EXCEPT !.l = <<l[1], l[2] + 1, 0, 0>>]
        ELSE IF l[1] + 1 < Limb THEN [x EXCEPT !.l = <<l[1] + 1, 0, 0, 0>>]
        ELSE [e |-> x.e + 1, l |-> <<0, 0, 0, 0>>]

\* x, with what lies beyond its 52 bits rounded to nearest, ties to even;
\* rest out of 2 * half is what lies beyond.
RoundToNearestEven(x, rest, half) ==
    IF rest > half \/ (rest = half /\ x.l[4] % 2 = 1) THEN NextUp(x) ELSE x

\* n / d for integers n > 0, d > 0.
Divide(n, d) ==
    LET up   == CHOOSE k \in 0..16 : d * Pow2(k) <= n /\ n < d * Pow2(k + 1)
        down == CHOOSE k \in 0..16 : d <= n * Pow2(k) /\ n * Pow2(k) < 2 * d
        num  == IF n >= d THEN n ELSE n * Pow2(down)
        den  == IF n >= d THEN d * Pow2(up) ELSE d
        s0   == num - den
        s1   == (Limb * s0) % den
        s2   == (Limb * s1) % den
        s3   == (Limb * s2) % den
        s4   == (Limb * s3) % den
    IN  RoundToNearestEven(
            [e |-> IF n >= d THEN up ELSE 0 - down,
             l |-> <<(Limb * s0) \div den, (Limb * s1) \div den,
                     (Limb * s2) \div den, (Limb * s3) \div den>>],
            2 * s4, den)

\* x * 100 = 4 * (25 * x).
Times100(x) ==
    LET t4  == 25 * x.l[4]
        t3  == 25 * x.l[3] + t4 \div Limb
        t2  == 25 * x.l[2] + t3 \div Limb
        t1  == 25 * x.l[1] + t2 \div Limb
        top == 25 + t1 \div Limb
        r1  == t1 % Limb
        r2  == t2 % Limb
        r3  == t3 % Limb
        r4  == t4 % Limb
        k   == IF top < 32 THEN 4 ELSE 5
        lo  == Pow2(k)
        hi  == Pow2(LimbBits - k)
    IN  RoundToNearestEven(
            [e |-> x.e + 2 + k,
             l |-> <<(top % lo) * hi + r1 \div lo, (r1 % lo) * hi + r2 \div lo,
                     (r2 % lo) * hi + r3 \div lo, (r3 % lo) * hi + r4 \div lo>>],
            r4 % lo, lo \div 2)

\* The first k bits after the leading one of x, k <= 2 * LimbBits.
FractionBits(x, k) ==
    IF k <= LimbBits THEN x.l[1] \div Pow2(LimbBits - k)
    ELSE x.l[1] * Pow2(k - LimbBits) + x.l[2] \div Pow2(2 * LimbBits - k)

\* Math.round(x): the nearest integer, halves up.
MathRound(x) ==
    IF x.e < -1 THEN 0
    ELSE (Pow2(x.e + 1) + FractionBits(x, x.e + 1) + 1) \div 2

\* What Math.round gives for a positive number divided by zero.
Infinity == 2147483647

\* Math.round((n / d) * 100) for integers n >= 0, d >= 0, not both 0.
RoundPct(n, d) ==
    IF d = 0 THEN Infinity
    ELSE IF n = 0 THEN 0
    ELSE MathRound(Times100(Divide(n, d)))

\* db.getAllFromIndex('courses', 'by-created'): ascending createdAt, ties
\* by primary key.
CourseBefore(a, b) ==
    \/ a.createdAt < b.createdAt
    \/ (a.createdAt = b.createdAt /\ IdRank(a.id) < IdRank(b.id))

RECURSIVE InIndexOrder(_)
InIndexOrder(S) ==
    IF S = {} THEN << >>
    ELSE LET first == CHOOSE a \in S : \A b \in S \ {a} : CourseBefore(a, b)
         IN  <<first>> \o InIndexOrder(S \ {first})

GetAllCourses(tbl) ==
    InIndexOrder({tbl[c] : c \in {x \in CourseIds : tbl[x] # NoCourse}})

\* The comparator of refreshCourses' sort is positive: a goes after b.
CourseAfter(a, b) ==
    IF a.lastWatched = NoTime /\ b.lastWatched = NoTime THEN FALSE
    ELSE IF a.lastWatched = NoTime THEN TRUE
    ELSE IF b.lastWatched = NoTime THEN FALSE
    ELSE b.lastWatched - a.lastWatched > 0

ProgressBefore(a, b) == a.lastWatched - b.lastWatched > 0

\* The comparator of the progress sort is positive: a goes after b.
ProgressAfter(a, b) == b.lastWatched - a.lastWatched > 0

\* Array.prototype.sort is stable: x goes before the first element that
\* the comparator puts after it.
InsertCourse(s, x) ==
    LET later == {i \in 1..Len(s) : CourseAfter(s[i], x)}
        k == IF later = {} THEN Len(s) + 1
             ELSE CHOOSE i \in later : \A j \in later : i <= j
    IN  SubSeq(s, 1, k - 1) \o <<x>> \o SubSeq(s, k, Len(s))

RECURSIVE SortCourses(_)
SortCourses(s) ==
    IF Len(s) = 0 THEN << >>
    ELSE InsertCourse(SortCourses(SubSeq(s, 1, Len(s) - 1)), s[Len(s)])

InsertProgress(s, x) ==
    LET later == {i \in 1..Len(s) : ProgressAfter(s[i], x)}
        k == IF later = {} THEN Len(s) + 1
             ELSE CHOOSE i \in later : \A j \in later : i <= j
    IN  SubSeq(s, 1, k - 1) \o <<x>> \o SubSeq(s, k, Len(s))

RECURSIVE SortProgress(_)
SortProgress(s) ==
    IF Len(s) = 0 THEN << >>
    ELSE InsertProgress(SortProgress(SubSeq(s, 1, Len(s) - 1)), s[Len(s)])

\* totalVideos > 0 ? Math.round((completedVideos / totalVideos) * 100) : 0
Percentage(completedVideos, totalVideos) ==
    IF totalVideos > 0 THEN RoundPct(completedVideos, totalVideos) ELSE 0

\* The progress member of a CourseWithProgress; "-" is no currentVideoId.
CourseProgress(course, courseProgress) ==
    LET totalVideos == Len(course.videos)
        completedVideos == Len(SelectSeq(courseProgress, LAMBDA x : x.completed))
    IN  [completedVideos |-> completedVideos,
         totalVideos |-> totalVideos,
         percentage |-> Percentage(completedVideos, totalVideos),
         currentVideoId |-> IF Len(courseProgress) > 0
                            THEN SortProgress(courseProgress)[1].videoId
                            ELSE "-"]

WithProgress(course, courseProgress) ==
    [id |-> course.id, videos |-> course.videos, createdAt |-> course.createdAt,
     lastWatched |-> course.lastWatched,
     progress |-> CourseProgress(course, courseProgress)]

\* What refreshCourses passes to setCourses.
RefreshedCourses(allCourses, allProgress) ==
    SortCourses([i \in 1..Len(allCourses) |->
        WithProgress(allCourses[i],
                     GetVideoProgressByCourse(allProgress, allCourses[i].id))])

\* status, progress and currentTime as getVideo derives them from the
\* record of a video; -1 is undefined.
VideoStatusAnyTime(progress) ==
    IF progress # NoProgress /\ progress.completed
    THEN [status |-> "completed", progress |-> 100, currentTime |-> -1]
    ELSE IF progress # NoProgress /\ progress.currentTime >= 0
    THEN [status |-> "in-progress",
          progress |-> RoundPct(progress.currentTime, progress.duration),
          currentTime |-> progress.currentTime]
    ELSE [status |-> "not-started", progress |-> -1, currentTime |-> -1]

VideoStatus(progress) ==
    IF progress # NoProgress /\ progress.completed
    THEN [status |-> "completed", progress |-> 100, currentTime |-> -1]
    ELSE IF progress # NoProgress /\ progress.currentTime > 0
    THEN [status |-> "in-progress",
          progress |-> RoundPct(progress.currentTime, progress.duration),
          currentTime |-> progress.currentTime]
    ELSE [status |-> "not-started", progress |-> -1, currentTime |-> -1]

\* ------------------------------------------------------------ the state
VARIABLES
    now,          \* the clock new Date() reads
    calls,        \* operations called so far
    dbCourses,    \* object store 'courses': id -> Course or NoCourse
    dbProgress,   \* object store 'videoProgress', in key order
    courses,      \* the provider's state: CourseWithProgress[]
    h,            \* per handler: where it is and what it holds
    last,         \* the handler that settled last: how, and whether a
                  \* store step of it failed
    pre,          \* per progress write in flight: what it found when called
    lastWritten,  \* per (videoId, courseId): the record last put, if kept
    fn,           \* the function of the provider being evaluated: its
                  \* name, its input and, once evaluated, its output
    player        \* the YouTubePlayer component: its props, its refs

vars == <<now, calls, dbCourses, dbProgress, courses, h, last, pre,
          lastWritten, fn, player>>

Idle == [pc |-> "idle", op |-> "-", arg |-> NoProgress, course |-> NoCourse,
         snap |-> << >>]

NoPre == [progress |-> NoProgress, lastWatched |-> NoTime]

LastWatchedOf(tbl, c) ==
    IF tbl[c] = NoCourse THEN NoTime ELSE tbl[c].lastWatched

PlayerRecordAtEnd(v, c, ct, lw) ==
    LET videoDuration == Video(v).duration
    IN  [videoId |-> v, courseId |-> c, currentTime |-> ct,
         duration |-> videoDuration,
         completed |-> (ct >= videoDuration), lastWatched |-> lw]

\* A VideoProgress record as the player's interval builds it.
PlayerRecord(v, c, ct, lw) ==
    LET videoDuration == Video(v).duration
    IN  [videoId |-> v, courseId |-> c, currentTime |-> ct,
         duration |-> videoDuration,
         completed |-> (ct * 100 >= videoDuration * 95), lastWatched |-> lw]

\* No function of the provider is being evaluated.
NoCall == [f |-> "-", in |-> << >>, done |-> FALSE, out |-> << >>]

\* No interval is set (timeUpdateIntervalRef.current is null).
NoInterval == [videoId |-> "-", courseId |-> "-"]

\* No YouTubePlayer is mounted.  api is the state of the IFrame API script
\* of the document: "none", "loading" or "ready".
Unmounted ==
    [mounted |-> FALSE, videoId |-> "-", courseId |-> "-", apiReady |-> FALSE,
     readyPending |-> FALSE, interval |-> NoInterval, api |-> "none",
     callbackLive |-> FALSE]

\* The stores a session can start from: what earlier sessions left at
\* time 0 by adding courses and then watching the first video of some of
\* them, every handler having settled.  The first course is absent, empty,
\* unwatched or begun; the second is absent or has its first video
\* completed.
InitialWatch ==
    {[c1 |-> a, c2 |-> b] : a \in {"absent", "empty", "unwatched", "begun"},
                            b \in {"absent", "completed"}}

InitialCourse(c, w) ==
    IF w = "absent" THEN NoCourse
    ELSE IF w = "empty" THEN NewCourse(c, << >>, 0)
    ELSE IF w = "unwatched" THEN NewCourse(c, <<Video("v1"), Video("v2")>>, 0)
    ELSE [NewCourse(c, <<Video("v1"), Video("v2")>>, 0) EXCEPT !.lastWatched = 0]

InitialRecords(w) ==
    (IF w.c1 = "begun" THEN {PlayerRecord("v1", "c1", 50, 0)} ELSE {}) \cup
    (IF w.c2 = "completed" THEN {PlayerRecord("v1", "c2", 96, 0)} ELSE {})

RECURSIVE PutAll(_, _)
PutAll(tbl, S) ==
    IF S = {} THEN tbl
    ELSE LET r == CHOOSE x \in S : TRUE
         IN  PutAll(PutProgress(tbl, r), S \ {r})

Init ==
    /\ now = 0
    /\ calls = 0
    /\ \E w \in InitialWatch :
        /\ dbCourses = [c \in CourseIds |->
                          InitialCourse(c, IF c = "c1" THEN w.c1 ELSE w.c2)]
        /\ dbProgress = PutAll(<< >>, InitialRecords(w))
    /\ courses = RefreshedCourses(GetAllCourses(dbCourses), dbProgress)
    /\ h = [p \in Procs |-> Idle]
    /\ last = [op |-> "-", id |-> "-", result |-> "-", failed |-> FALSE]
    /\ pre = [p \in Procs |-> NoPre]
    /\ lastWritten = [k \in VideoIds \X CourseIds |->
                        IF k = <<"v1", "c1">> /\ dbCourses["c1"] # NoCourse
                                              /\ dbCourses["c1"].lastWatched = 0
                        THEN PlayerRecord("v1", "c1", 50, 0)
                        ELSE IF k = <<"v1", "c2">> /\ dbCourses["c2"] # NoCourse
                        THEN PlayerRecord("v1", "c2", 96, 0)
                        ELSE NoProgress]
    /\ fn = NoCall
    /\ player = Unmounted

\* A handler is called: the call budget is not used up and p is the first
\* free slot (the slots are interchangeable).
CanCall(p) ==
    /\ h[p].pc = "idle"
    /\ \A q \in Procs : q < p => h[q].pc # "idle"
    /\ calls < MaxCalls

\* The handler of p, called for course c, settles with res.
Settle(p, op, c, res, fail) ==
    /\ h' = [h EXCEPT ![p] = Idle]
    /\ last' = [op |-> op, id |-> c, result |-> res, failed |-> fail]

\* The handler of p goes on at pc.
Goto(p, op, pc, arg, course, snap) ==
    /\ h' = [h EXCEPT ![p] = [pc |-> pc, op |-> op, arg |-> arg,
                             course |-> course, snap |-> snap]]
    /\ UNCHANGED last

\* The course a handler in flight was called for.
CourseOf(hp) ==
    IF hp.op = "addCourse" THEN hp.arg.id
    ELSE IF hp.op = "refreshCourses" THEN "-"
    ELSE hp.arg.courseId

\* How a handler settles when a store operation throws: addCourse,
\* updateVideoProgress and markVideoCompleted catch and log; db.deleteCourse
\* and refreshCourses have no catch.
OnError(op) ==
    IF op = "addCourse" THEN "false"
    ELSE IF op \in {"updateVideoProgress", "markVideoCompleted"} THEN "resolved"
    ELSE "rejected"

\* The clock advances.
Tick ==
    /\ now < MaxTime
    /\ now' = now + 1
    /\ UNCHANGED <<calls, dbCourses, dbProgress, courses, h, last, pre,
                   lastWritten>>
    /\ UNCHANGED <<fn, player>>

\* ------------------------------------------------------------ addCourse
AlwaysAbsent(existingCourse) == FALSE

\* if (existingCourse) return false
AlreadyExists(existingCourse) == existingCourse # NoCourse

\* addCourse(course) up to its first await: db.getCourse(course.id).
AddCourse(p) ==
    /\ CanCall(p)
    /\ \E c \in CourseIds, vs \in VideoLists, ok \in BOOLEAN :
        LET course == NewCourse(c, vs, now)
        IN  IF ~ok THEN Settle(p, "addCourse", c, OnError("addCourse"), TRUE)
            ELSE IF AlreadyExists(dbCourses[c])
            THEN Settle(p, "addCourse", c, "false", FALSE)
            ELSE Goto(p, "addCourse", "add_put", course, NoCourse, << >>)
    /\ calls' = calls + 1
    /\ UNCHANGED <<now, dbCourses, dbProgress, courses, pre, lastWritten>>
    /\ UNCHANGED <<fn, player>>

\* db.addCourse(course): put.
AddPut(p) ==
    /\ h[p].pc = "add_put"
    /\ dbCourses' = [dbCourses EXCEPT ![h[p].arg.id] = h[p].arg]
    /\ Goto(p, h[p].op, "refresh1", h[p].arg, NoCourse, << >>)
    /\ UNCHANGED <<now, calls, dbProgress, courses, pre, lastWritten>>
    /\ UNCHANGED <<fn, player>>

\* ------------------------------------------------------- refreshCourses
\* refreshCourses() called by itself, up to db.getAllCourses().
RefreshCourses(p) ==
    /\ CanCall(p)
    /\ \E ok \in BOOLEAN :
        IF ok
        THEN Goto(p, "refreshCourses", "refresh2", NoProgress, NoCourse,
                  GetAllCourses(dbCourses))
        ELSE Settle(p, "refreshCourses", "-", OnError("refreshCourses"), TRUE)
    /\ calls' = calls + 1
    /\ UNCHANGED <<now, dbCourses, dbProgress, courses, pre, lastWritten>>
    /\ UNCHANGED <<fn, player>>

\* const allCourses = await db.getAllCourses(), at the end of a write.
Refresh1(p) ==
    /\ h[p].pc = "refresh1"
    /\ Goto(p, h[p].op, "refresh2", h[p].arg, NoCourse, GetAllCourses(dbCourses))
    /\ UNCHANGED <<now, calls, dbCourses, dbProgress, courses, pre, lastWritten>>
    /\ UNCHANGED <<fn, player>>

\* const allProgress = await db.getAllVideoProgress(); the rest of
\* refreshCourses is synchronous and ends in setCourses.
Refresh2(p) ==
    /\ h[p].pc = "refresh2"
    /\ courses' = RefreshedCourses(h[p].snap, dbProgress)
    /\ Settle(p, h[p].op, CourseOf(h[p]),
              IF h[p].op = "addCourse" THEN "true" ELSE "resolved", FALSE)
    /\ pre' = [pre EXCEPT ![p] = NoPre]
    /\ UNCHANGED <<now, calls, dbCourses, dbProgress, lastWritten>>
    /\ UNCHANGED <<fn, player>>

\* -------------------------------------------------- updateVideoProgress
\* What a progress write for (v, c) finds in the store when it is called.
PreOf(v, c) == [progress |-> GetVideoProgress(dbProgress, v, c),
                lastWatched |-> LastWatchedOf(dbCourses, c)]

\* The VideoProgress records a caller can pass to updateVideoProgress at
\* time t: completed as the player computes it, lastWatched as supplied.
ProgressInputs(t) ==
    {PlayerRecord(v, c, ct, lw) :
        v \in VideoIds, c \in CourseIds, ct \in CurrentTimes, lw \in 0..t}

\* db.updateVideoProgress(progress): the record is put as it was passed.
UpsertProgress(p, op, progress) ==
    /\ dbProgress' = PutProgress(dbProgress, progress)
    /\ lastWritten' = [lastWritten EXCEPT
                         ![<<progress.videoId, progress.courseId>>] = progress]
    /\ Goto(p, op, "upd_get", progress, NoCourse, << >>)

\* updateVideoProgress(progress) up to its first await.
UpdateVideoProgress(p) ==
    /\ CanCall(p)
    /\ \E progress \in ProgressInputs(now), ok \in BOOLEAN :
        IF ok
        THEN /\ UpsertProgress(p, "updateVideoProgress", progress)
             /\ pre' = [pre EXCEPT ![p] =
                           PreOf(progress.videoId, progress.courseId)]
        ELSE /\ Settle(p, "updateVideoProgress", progress.courseId,
                       OnError("updateVideoProgress"), TRUE)
             /\ UNCHANGED <<dbProgress, lastWritten, pre>>
    /\ calls' = calls + 1
    /\ UNCHANGED <<now, dbCourses, courses>>
    /\ UNCHANGED <<fn, player>>

\* const course = await db.getCourse(progress.courseId)
UpdGet(p) ==
    /\ h[p].pc = "upd_get"
    /\ Goto(p, h[p].op, "upd_put", h[p].arg, dbCourses[h[p].arg.courseId], << >>)
    /\ UNCHANGED <<now, calls, dbCourses, dbProgress, courses, pre, lastWritten>>
    /\ UNCHANGED <<fn, player>>

StampOfRecord(t, progress) == progress.lastWatched

\* lastWatched: new Date().toISOString()
CourseStamp(t, progress) == t

RestampedAnew(course, lastWatched) ==
    [course EXCEPT !.lastWatched = lastWatched, !.createdAt = lastWatched]

\* {...course, lastWatched: ...}
Restamped(course, lastWatched) == [course EXCEPT !.lastWatched = lastWatched]

\* if (course) db.updateCourse({...course, lastWatched}); without a course
\* the handler goes straight on to refreshCourses' db.getAllCourses().
UpdPut(p) ==
    /\ h[p].pc = "upd_put"
    /\ IF h[p].course # NoCourse
       THEN /\ dbCourses' = [dbCourses EXCEPT ![h[p].course.id] =
                   Restamped(h[p].course, CourseStamp(now, h[p].arg))]
            /\ Goto(p, h[p].op, "refresh1", h[p].arg, NoCourse, << >>)
       ELSE /\ Goto(p, h[p].op, "refresh2", h[p].arg, NoCourse,
                    GetAllCourses(dbCourses))
            /\ UNCHANGED dbCourses
    /\ UNCHANGED <<now, calls, dbProgress, courses, pre, lastWritten>>
    /\ UNCHANGED <<fn, player>>

\* --------------------------------------------------- markVideoCompleted
NoVideo == [id |-> "-"]

\* courses.find(c => c.id === courseId)?.videos.find(v => v.id === videoId)
FindVideo(list, c, v) ==
    LET cs == SelectSeq(list, LAMBDA x : x.id = c)
        vs == IF Len(cs) = 0 THEN << >>
              ELSE SelectSeq(cs[1].videos, LAMBDA x : x.id = v)
    IN  IF Len(vs) = 0 THEN NoVideo ELSE vs[1]

\* markVideoCompleted(courseId, videoId) up to its first await,
\* db.getVideoProgress; courses is the list of the render that made the
\* function.
MarkVideoCompleted(p) ==
    /\ CanCall(p)
    /\ \E c \in CourseIds, v \in VideoIds, ok \in BOOLEAN :
        LET arg == [videoId |-> v, courseId |-> c, video |-> FindVideo(courses, c, v)]
        IN  IF ok
            THEN /\ Goto(p, "markVideoCompleted", "mark_put", arg, NoCourse, << >>)
                 /\ pre' = [pre EXCEPT ![p] = PreOf(v, c)]
            ELSE /\ Settle(p, "markVideoCompleted", c,
                           OnError("markVideoCompleted"), TRUE)
                 /\ UNCHANGED pre
    /\ calls' = calls + 1
    /\ UNCHANGED <<now, dbCourses, dbProgress, courses, lastWritten>>
    /\ UNCHANGED <<fn, player>>

\* The record markVideoCompleted builds.
CompletedRecord(arg, t) ==
    [videoId |-> arg.videoId, courseId |-> arg.courseId,
     currentTime |-> arg.video.duration, duration |-> arg.video.duration,
     completed |-> TRUE, lastWatched |-> t]

\* if (!video) return; otherwise updateVideoProgress(progress).
MarkPut(p) ==
    /\ h[p].pc = "mark_put"
    /\ IF h[p].arg.video = NoVideo
       THEN /\ Settle(p, h[p].op, CourseOf(h[p]), "resolved", FALSE)
            /\ pre' = [pre EXCEPT ![p] = NoPre]
            /\ UNCHANGED <<dbProgress, lastWritten>>
       ELSE /\ UpsertProgress(p, h[p].op, CompletedRecord(h[p].arg, now))
            /\ UNCHANGED pre
    /\ UNCHANGED <<now, calls, dbCourses, courses>>
    /\ UNCHANGED <<fn, player>>

\* ------------------------------------------------------ db.deleteCourse
\* db.deleteCourse(id) up to its first await: db.delete('courses', id).
DeleteCourse(p) ==
    /\ CanCall(p)
    /\ \E c \in CourseIds, ok \in BOOLEAN :
        LET arg == [courseId |-> c]
        IN  IF ok
            THEN /\ dbCourses' = [dbCourses EXCEPT ![c] = NoCourse]
                 /\ Goto(p, "deleteCourse", "del_progress", arg, NoCourse, << >>)
            ELSE /\ Settle(p, "deleteCourse", c, OnError("deleteCourse"), TRUE)
                 /\ UNCHANGED dbCourses
    /\ calls' = calls + 1
    /\ UNCHANGED <<now, dbProgress, courses, pre, lastWritten>>
    /\ UNCHANGED <<fn, player>>

\* The readwrite transaction on videoProgress, then tx.done.
DelProgress(p) ==
    /\ h[p].pc = "del_progress"
    /\ dbProgress' = DeleteProgressOf(dbProgress, h[p].arg.courseId)
    /\ lastWritten' = [k \in VideoIds \X CourseIds |->
                         IF k[2] = h[p].arg.courseId THEN NoProgress
                         ELSE lastWritten[k]]
    /\ Settle(p, h[p].op, CourseOf(h[p]), "resolved", FALSE)
    /\ UNCHANGED <<now, calls, dbCourses, courses, pre>>
    /\ UNCHANGED <<fn, player>>

\* ------------------------------------------------------- store failures
\* The store operation the handler of p is about to make throws.
StoreFails(p) ==
    /\ h[p].pc # "idle"
    /\ ~(h[p].pc = "mark_put" /\ h[p].arg.video = NoVideo)
    /\ Settle(p, h[p].op, CourseOf(h[p]), OnError(h[p].op), TRUE)
    /\ pre' = [pre EXCEPT ![p] = NoPre]
    /\ UNCHANGED <<now, calls, dbCourses, dbProgress, courses, lastWritten>>
    /\ UNCHANGED <<fn, player>>

\* ------------------------------------------ getCourse, getVideo, next
\* getCourse(id): the course of the provider's list, or else the course of
\* the store with its progress; NoCourse is undefined.
GetCourse(list, ctbl, ptbl, id) ==
    LET found == SelectSeq(list, LAMBDA x : x.id = id)
    IN  IF Len(found) > 0 THEN found[1]
        ELSE IF ctbl[id] = NoCourse THEN NoCourse
        ELSE WithProgress(ctbl[id], GetVideoProgressByCourse(ptbl, id))

\* getVideo(courseId, videoId): the video with status, progress and
\* currentTime; NoVideo is undefined.
GetVideo(list, ctbl, ptbl, courseId, videoId) ==
    LET course == GetCourse(list, ctbl, ptbl, courseId)
        vs == IF course = NoCourse THEN << >>
              ELSE SelectSeq(course.videos, LAMBDA x : x.id = videoId)
        st == VideoStatus(GetVideoProgress(ptbl, videoId, courseId))
    IN  IF Len(vs) = 0 THEN NoVideo
        ELSE [id |-> vs[1].id, duration |-> vs[1].duration,
              status |-> st.status, progress |-> st.progress,
              currentTime |-> st.currentTime]

\* videos.findIndex(v => v.id === id); 0 is not found (-1 in the code,
\* whose indices start at 0).
FindIndex(videos, id) ==
    LET at == {i \in 1..Len(videos) : videos[i].id = id}
    IN  IF at = {} THEN 0 ELSE CHOOSE i \in at : \A j \in at : i <= j

SameIndex(currentIndex) == currentIndex

\* course.videos[currentIndex + 1]
NextIndex(currentIndex) == currentIndex + 1

\* getNextVideo(courseId, currentVideoId)
GetNextVideo(list, ctbl, ptbl, courseId, currentVideoId) ==
    LET course == GetCourse(list, ctbl, ptbl, courseId)
        currentIndex == IF course = NoCourse THEN 0
                        ELSE FindIndex(course.videos, currentVideoId)
    IN  IF course = NoCourse THEN NoVideo
        ELSE IF currentIndex = 0 \/ currentIndex = Len(course.videos) THEN NoVideo
        ELSE GetVideo(list, ctbl, ptbl, courseId,
                      course.videos[NextIndex(currentIndex)].id)

\* ------------------------------------------------- getCourseFromPlaylist
\* A URL is a sequence of characters.
LowerCase(ch) ==
    IF ch = "L" THEN "l" ELSE IF ch = "I" THEN "i"
    ELSE IF ch = "S" THEN "s" ELSE IF ch = "T" THEN "t" ELSE ch

\* /[&?]list=([^&]+)/i matches at position i of url.
MatchesAnywhere(url, i) ==
    /\ i + 5 <= Len(url)
    /\ [k \in 1..5 |-> LowerCase(url[i + k - 1])] = <<"l", "i", "s", "t", "=">>
    /\ url[i + 5] # "&"

MatchesAt(url, i) ==
    /\ i + 6 <= Len(url)
    /\ url[i] \in {"&", "?"}
    /\ [k \in 1..5 |-> LowerCase(url[i + k])] = <<"l", "i", "s", "t", "=">>
    /\ url[i + 6] # "&"

\* extractPlaylistId(url): group 1 of the leftmost match, the longest run
\* of characters other than & after list=; << >> is null.
ExtractPlaylistId(url) ==
    LET at == {i \in 1..Len(url) : MatchesAt(url, i)}
    IN  IF at = {} THEN << >>
        ELSE LET i == CHOOSE x \in at : \A y \in at : x <= y
                 stop == {j \in (i + 6)..Len(url) : url[j] = "&"}
                 last1 == IF stop = {} THEN Len(url)
                          ELSE (CHOOSE x \in stop : \A y \in stop : x <= y) - 1
             IN  SubSeq(url, i + 6, last1)

\* maxResults of a page of items, and the ids of a request for durations.
MaxResults == 50

RECURSIVE Sum(_)
Sum(s) == IF Len(s) = 0 THEN 0 ELSE s[1] + Sum(SubSeq(s, 2, Len(s)))

\* The chunks of 50 the video ids are cut into.
Chunks(n) == (n + MaxResults - 1) \div MaxResults

DetailsUnchecked(ok, nPages, total) == {i \in 1..(1 + nPages) : ~ok[i]}

\* if (!response.ok) throw ..., after each of the total requests: for the
\* playlist, for each of the nPages pages of items, for each chunk of ids.
FailedRequests(ok, nPages, total) == {i \in 1..total : ~ok[i]}

\* getCourseFromPlaylist(playlistUrl) at time t.  The service is what the
\* network gives: whether /api/config gives the key, the sizes of the
\* pages of the playlist, and whether the i-th request gets a 2xx.
\* Without a playlist id it throws before any request; the first request
\* without a 2xx throws; otherwise the Course is built with the playlist
\* id as its id and a Video for each item.
GetCourseFromPlaylist(playlistUrl, service, t) ==
    LET playlistId == ExtractPlaylistId(playlistUrl)
        nPages == Len(service.pages)
        nVideos == Sum(service.pages)
        total == 1 + nPages + Chunks(nVideos)
        failed == FailedRequests(service.ok, nPages, total)
        first == CHOOSE i \in failed : \A j \in failed : i <= j
    IN  IF Len(playlistId) = 0
        THEN [error |-> "Invalid playlist URL", requests |-> 0, course |-> NoCourse]
        ELSE IF ~service.keyOk
        THEN [error |-> "Failed to get YouTube API key from server",
              requests |-> 0, course |-> NoCourse]
        ELSE IF failed # {}
        THEN [error |-> IF first = 1 THEN "Failed to fetch playlist info"
                        ELSE IF first <= 1 + nPages
                        THEN "Failed to fetch playlist items"
                        ELSE "Failed to fetch video details",
              requests |-> first, course |-> NoCourse]
        ELSE [error |-> "-", requests |-> total,
              course |-> NewCourse(playlistId,
                                   [i \in 1..nVideos |-> [id |-> i, duration |-> 100]],
                                   t)]

\* onSubmit of AddCourse: the Course of getCourseFromPlaylist is passed to
\* addCourse; an error thrown is caught and shown, and addCourse is not
\* called.  added is the Course addCourse is called with.
OnSubmit(playlistUrl, service, t) ==
    LET got == GetCourseFromPlaylist(playlistUrl, service, t)
    IN  [error |-> got.error, requests |-> got.requests,
         added |-> IF got.error = "-" THEN got.course ELSE NoCourse]

\* --------------------------------------------------------------- timeAgo
JustNow == [count |-> -1, unit |-> "Just now"]

\* `${n} ${n === 1 ? unit : units} ago`
Ago(n, unit) == [count |-> n, unit |-> IF n = 1 THEN unit ELSE unit \o "s"]

\* timeAgo(date) for a date diffMs = 1000 * secs + ms before now, ms in
\* 0..999: diffSecs = Math.floor(diffMs / 1000) is secs.
TimeAgo(secs, ms) ==
    LET diffSecs == secs
        diffMins == diffSecs \div 60
        diffHours == diffMins \div 60
        diffDays == diffHours \div 24
        diffWeeks == diffDays \div 7
        diffMonths == diffDays \div 30
        diffYears == diffDays \div 365
    IN  IF diffSecs < 60 THEN JustNow
        ELSE IF diffMins < 60 THEN Ago(diffMins, "minute")
        ELSE IF diffHours < 24 THEN Ago(diffHours, "hour")
        ELSE IF diffDays < 7 THEN Ago(diffDays, "day")
        ELSE IF diffWeeks < 4 THEN Ago(diffWeeks, "week")
        ELSE IF diffMonths < 12 THEN Ago(diffMonths, "month")
        ELSE Ago(diffYears, "year")

\* ---------------------------------------------------- the list of Home
UnwatchedAsStored(a, b) == CourseAfter(a, b)

\* The comparator of Home's sort effect is positive: a goes after b.
HomeAfter(a, b) ==
    IF a.lastWatched # NoTime /\ b.lastWatched # NoTime
    THEN b.lastWatched - a.lastWatched > 0
    ELSE IF a.lastWatched # NoTime THEN FALSE
    ELSE IF b.lastWatched # NoTime THEN TRUE
    ELSE b.createdAt - a.createdAt > 0

InsertHome(s, x) ==
    LET later == {i \in 1..Len(s) : HomeAfter(s[i], x)}
        k == IF later = {} THEN Len(s) + 1
             ELSE CHOOSE i \in later : \A j \in later : i <= j
    IN  SubSeq(s, 1, k - 1) \o <<x>> \o SubSeq(s, k, Len(s))

\* sortedCourses of Home: [...courses].sort(...), stable.
RECURSIVE SortedCourses(_)
SortedCourses(s) ==
    IF Len(s) = 0 THEN << >>
    ELSE InsertHome(SortedCourses(SubSeq(s, 1, Len(s) - 1)), s[Len(s)])

\* ------------------------------------------- the functions, on their own
\* Videos a course has at most, where only the counts matter.
MaxVideos == 250

\* Timestamps of the records and courses the functions are given.
MaxStamp == 2

\* The records a caller can pass to updateVideoProgress for a pair: any
\* VideoProgress, the store checking nothing.
AnyRecords(v, c) ==
    {[videoId |-> v, courseId |-> c, currentTime |-> ct, duration |-> d,
      completed |-> done, lastWatched |-> 0] :
        ct \in {0, 50, 150}, d \in {0, 100}, done \in BOOLEAN}

\* A record of video v of course c last watched at lw.
WatchedAt(v, c, lw) == PlayerRecord(v, c, 50, lw)

FunVideoIds == {"v1", "v2", "v3"}

FunCourseIds == {"c1", "c2", "c3"}

\* The stores getVideo and getNextVideo are evaluated on: course c1 absent
\* or with no, two or three videos, any record for its first video and no
\* record, a record in progress or a completed one for its second; the
\* provider's list not loaded yet, or loaded from this store.
FunStores ==
    {[dbCourses |-> [c \in CourseIds |-> IF c = "c1" THEN c1 ELSE NoCourse],
      dbProgress |-> PutAll(<< >>, r1 \cup r2),
      loaded |-> loaded] :
        c1 \in {NoCourse} \cup {NewCourse("c1", vs, 0) :
                  vs \in {<< >>, <<Video("v1"), Video("v2")>>,
                          <<Video("v1"), Video("v2"), Video("v3")>>}},
        r1 \in {{}} \cup {{r} : r \in AnyRecords("v1", "c1")},
        r2 \in {{}, {PlayerRecord("v2", "c1", 50, 0)},
                {PlayerRecord("v2", "c1", 96, 0)}},
        loaded \in BOOLEAN}

QueryInputs ==
    {[courses |-> IF st.loaded
                  THEN RefreshedCourses(GetAllCourses(st.dbCourses), st.dbProgress)
                  ELSE << >>,
      dbCourses |-> st.dbCourses, dbProgress |-> st.dbProgress,
      courseId |-> c, videoId |-> v] :
        st \in FunStores, c \in CourseIds, v \in FunVideoIds}

\* The records of a course computeCourseProgress is given: per video none
\* or one, last watched at any time.
ProgressLists ==
    {PutAll(<< >>, UNION {w[v] : v \in FunVideoIds}) :
        w \in [FunVideoIds -> {{}} \cup {{WatchedAt(v, "c1", lw)} :
                                            v \in FunVideoIds, lw \in 0..MaxStamp}]}

\* The sets of courses of a store: three courses, created at any time,
\* watched at any time or never.
CourseSets ==
    {{[NewCourse(c, << >>, w[c][1]) EXCEPT !.lastWatched = w[c][2]] :
          c \in FunCourseIds} :
        w \in [FunCourseIds -> (0..MaxStamp) \X ({NoTime} \cup 1..MaxStamp)]}

\* The URLs: a path, then one or two parameters, each & or ? with a key,
\* = and a value.
UrlKeys == {<<"l", "i", "s", "t">>, <<"L", "i", "s", "T">>, <<"v">>,
            <<"p", "l", "a", "y", "l", "i", "s", "t">>}

UrlParams ==
    {<<sep>> \o key \o eq \o val :
        sep \in {"?", "&"}, key \in UrlKeys, eq \in {<<"=">>, << >>},
        val \in {<< >>, <<"P", "L", "1">>}}

Urls ==
    {<<"h", "/", "w">> \o a \o b : a \in UrlParams \cup {<< >>},
                                   b \in UrlParams \cup {<< >>}}

\* Requests getCourseFromPlaylist makes at most for the playlists below.
MaxRequests == 7

\* The sizes of the pages of a playlist: every page but the last is full.
Playlists == {<<0>>, <<1>>, <<MaxResults, 1>>, <<MaxResults, MaxResults, 1>>}

Services ==
    {[keyOk |-> k, pages |-> ps, ok |-> o] :
        k \in BOOLEAN, ps \in Playlists, o \in [1..MaxRequests -> BOOLEAN]}

\* A service that answers every request.
Answering == [keyOk |-> TRUE, pages |-> <<1>>, ok |-> [i \in 1..MaxRequests |-> TRUE]]

ListUrl == <<"h", "/", "w", "?", "l", "i", "s", "t", "=", "P", "L", "1">>

\* Days a date passed to timeAgo lies back at most.
MaxDays == 400

\* The times of day of the dates passed to timeAgo, in seconds.
DaySeconds == {0, 59, 60, 3599, 3600, 86399}

InitFun ==
    /\ now = 0
    /\ calls = 0
    /\ dbCourses = [c \in CourseIds |-> NoCourse]
    /\ dbProgress = << >>
    /\ courses = << >>
    /\ h = [p \in Procs |-> Idle]
    /\ last = [op |-> "-", id |-> "-", result |-> "-", failed |-> FALSE]
    /\ pre = [p \in Procs |-> NoPre]
    /\ lastWritten = [k \in VideoIds \X CourseIds |-> NoProgress]
    /\ player = Unmounted
    /\ \/ \E x \in QueryInputs, f \in {"getVideo", "getNextVideo"} :
            fn = [NoCall EXCEPT !.f = f, !.in = x]
       \/ \E n \in 0..MaxVideos, d \in 0..MaxVideos :
            n <= d /\ fn = [NoCall EXCEPT !.f = "percentage", !.in = <<n, d>>]
       \/ \E x \in ProgressLists :
            fn = [NoCall EXCEPT !.f = "courseProgress", !.in = x]
       \/ \E x \in CourseSets :
            fn = [NoCall EXCEPT !.f = "sortedCourses", !.in = x]
       \/ \E x \in Urls :
            fn = [NoCall EXCEPT !.f = "getCourseFromPlaylist",
                                !.in = [url |-> x, service |-> Answering]]
       \/ \E d \in 0..MaxDays, x \in DaySeconds, ms \in {0, 999} :
            fn = [NoCall EXCEPT !.f = "timeAgo",
                                !.in = [secs |-> d * 86400 + x, ms |-> ms]]
       \/ \E x \in {ListUrl, <<"h", "/", "w">>}, service \in Services :
            fn = [NoCall EXCEPT !.f = "onSubmit",
                                !.in = [url |-> x, service |-> service]]

Evaluated(out) ==
    /\ ~fn.done
    /\ fn' = [fn EXCEPT !.done = TRUE, !.out = out]
    /\ UNCHANGED <<now, calls, dbCourses, dbProgress, courses, h, last, pre,
                   lastWritten, player>>

EvalGetVideo ==
    /\ fn.f = "getVideo"
    /\ Evaluated(GetVideo(fn.in.courses, fn.in.dbCourses, fn.in.dbProgress,
                          fn.in.courseId, fn.in.videoId))

EvalGetNextVideo ==
    /\ fn.f = "getNextVideo"
    /\ Evaluated(GetNextVideo(fn.in.courses, fn.in.dbCourses, fn.in.dbProgress,
                              fn.in.courseId, fn.in.videoId))

EvalPercentage ==
    /\ fn.f = "percentage"
    /\ Evaluated(Percentage(fn.in[1], fn.in[2]))

\* The progress of a course of three videos with the records fn.in.
EvalCourseProgress ==
    /\ fn.f = "courseProgress"
    /\ Evaluated(CourseProgress(
            NewCourse("c1", <<Video("v1"), Video("v2"), Video("v3")>>, 0), fn.in))

\* The list Home shows: getAllCourses, refreshCourses, Home's sort effect.
EvalSortedCourses ==
    /\ fn.f = "sortedCourses"
    /\ Evaluated(SortedCourses(RefreshedCourses(InIndexOrder(fn.in), << >>)))

EvalGetCourseFromPlaylist ==
    /\ fn.f = "getCourseFromPlaylist"
    /\ Evaluated(GetCourseFromPlaylist(fn.in.url, fn.in.service, now))

EvalTimeAgo ==
    /\ fn.f = "timeAgo"
    /\ Evaluated(TimeAgo(fn.in.secs, fn.in.ms))

EvalOnSubmit ==
    /\ fn.f = "onSubmit"
    /\ Evaluated(OnSubmit(fn.in.url, fn.in.service, now))

FunNext ==
    \/ EvalGetVideo
    \/ EvalGetNextVideo
    \/ EvalPercentage
    \/ EvalCourseProgress
    \/ EvalSortedCourses
    \/ EvalGetCourseFromPlaylist
    \/ EvalOnSubmit
    \/ EvalTimeAgo

\* The functions of the provider, of Home and of lib/youtube, each
\* evaluated once on an input.
SpecFun == InitFun /\ [][FunNext]_vars

\* -------------------------------------------------------- YouTubePlayer
\* Positions getCurrentTime() can report.
PlayerTimes == {0, 94, 95, 96}

\* The course of the video page (the route's courseId).
PageCourse == "c1"

\* The videos the page can show: VideoPlayer renders the player once
\* getCourse and getVideo have found the course and the video.
Shown(c, v) ==
    /\ dbCourses[c] # NoCourse
    /\ \E i \in 1..Len(dbCourses[c].videos) : dbCourses[c].videos[i].id = v

\* The player/interval effect: without apiReady it returns at once;
\* otherwise the interval of the ref is cleared and a new one is set whose
\* callback holds the videoId and courseId of this render.
IntervalOfEffect(pl) ==
    IF pl.apiReady THEN [videoId |-> pl.videoId, courseId |-> pl.courseId]
    ELSE pl.interval

KeepInterval(pl) == pl.interval

\* The cleanup of the first effect: clearInterval, ref set to null.
IntervalOfCleanup(pl) == NoInterval

\* The component mounts for video v of course c.  The first effect adds the
\* script and registers onYouTubeIframeAPIReady when the document has no
\* script, or calls setApiReady(true) when the API is loaded; the second
\* effect returns at once, apiReady being false in the first render.
PlayerMount ==
    /\ ~player.mounted
    /\ \E c \in {PageCourse}, v \in VideoIds :
        /\ Shown(c, v)
        /\ player' = [player EXCEPT
              !.mounted = TRUE, !.videoId = v, !.courseId = c,
              !.apiReady = FALSE,
              !.readyPending = (player.api = "ready"),
              !.api = IF player.api = "none" THEN "loading" ELSE player.api,
              !.callbackLive = IF player.api = "none" THEN TRUE
                               ELSE player.callbackLive]
    /\ UNCHANGED <<now, calls, dbCourses, dbProgress, courses, h, last, pre,
                   lastWritten, fn>>

\* The script has loaded: window.onYouTubeIframeAPIReady() is called, which
\* is setApiReady(true) of the component that registered it.
PlayerApiLoaded ==
    /\ player.api = "loading"
    /\ player' = [player EXCEPT
          !.api = "ready",
          !.readyPending = player.readyPending \/ player.callbackLive]
    /\ UNCHANGED <<now, calls, dbCourses, dbProgress, courses, h, last, pre,
                   lastWritten, fn>>

\* The render after setApiReady(true): the player/interval effect runs.
PlayerReady ==
    /\ player.mounted
    /\ player.readyPending
    /\ LET pl == [player EXCEPT !.apiReady = TRUE, !.readyPending = FALSE]
       IN  player' = [pl EXCEPT !.interval = IntervalOfEffect(pl)]
    /\ UNCHANGED <<now, calls, dbCourses, dbProgress, courses, h, last, pre,
                   lastWritten, fn>>

\* The page shows another video in the same component: videoId changes and
\* the player/interval effect runs again.
PlayerSwitch ==
    /\ player.mounted
    /\ \E v \in VideoIds \ {player.videoId} :
        /\ Shown(player.courseId, v)
        /\ LET pl == [player EXCEPT !.videoId = v]
           IN  player' = [pl EXCEPT !.interval = IntervalOfEffect(pl)]
    /\ UNCHANGED <<now, calls, dbCourses, dbProgress, courses, h, last, pre,
                   lastWritten, fn>>

\* The component unmounts: the cleanup of the first effect runs; a
\* setApiReady that comes later finds no component.
PlayerUnmount ==
    /\ player.mounted
    /\ player' = [player EXCEPT
          !.mounted = FALSE, !.videoId = "-", !.courseId = "-",
          !.apiReady = FALSE, !.readyPending = FALSE,
          !.callbackLive = FALSE,
          !.interval = IntervalOfCleanup(player)]
    /\ UNCHANGED <<now, calls, dbCourses, dbProgress, courses, h, last, pre,
                   lastWritten, fn>>

\* The interval's callback, the player having getCurrentTime: it builds
\* the record of its videoId and courseId and passes it to onTimeUpdate,
\* which is updateVideoProgress up to its first await.
IntervalFires(p) ==
    /\ CanCall(p)
    /\ player.interval # NoInterval
    /\ \E ct \in PlayerTimes, ok \in BOOLEAN :
        LET progress == PlayerRecord(player.interval.videoId,
                                     player.interval.courseId, ct, now)
        IN  IF ok
            THEN /\ UpsertProgress(p, "updateVideoProgress", progress)
                 /\ pre' = [pre EXCEPT ![p] =
                               PreOf(progress.videoId, progress.courseId)]
            ELSE /\ Settle(p, "updateVideoProgress", progress.courseId,
                           OnError("updateVideoProgress"), TRUE)
                 /\ UNCHANGED <<dbProgress, lastWritten, pre>>
    /\ calls' = calls + 1
    /\ UNCHANGED <<now, dbCourses, courses, fn, player>>

\* handleTimeUpdate of the later video page, called by the interval with
\* its record: the write to the store is commented out, and what is left
\* sets the progress shown for the current video.
HandleTimeUpdate ==
    /\ calls < MaxCalls
    /\ player.interval # NoInterval
    /\ \E ct \in PlayerTimes :
        LET progress == PlayerRecord(player.interval.videoId,
                                     player.interval.courseId, ct, now)
        IN  fn' = [f |-> "handleTimeUpdate", in |-> progress, done |-> TRUE,
                   out |-> IF progress.videoId = player.videoId
                           THEN RoundPct(progress.currentTime, progress.duration)
                           ELSE -1]
    /\ calls' = calls + 1
    /\ UNCHANGED <<now, dbCourses, dbProgress, courses, h, last, pre,
                   lastWritten, player>>

\* ------------------------------------------------------ specifications
Call(p) ==
    \/ AddCourse(p)
    \/ UpdateVideoProgress(p)
    \/ MarkVideoCompleted(p)
    \/ DeleteCourse(p)
    \/ RefreshCourses(p)

Step(p) ==
    \/ AddPut(p)
    \/ Refresh1(p)
    \/ Refresh2(p)
    \/ UpdGet(p)
    \/ UpdPut(p)
    \/ MarkPut(p)
    \/ DelProgress(p)
    \/ StoreFails(p)

Next ==
    \/ Tick
    \/ \E p \in Procs : Call(p)
    \/ \E p \in Procs : Step(p)

\* Handlers overlap: a call can be made while others are in flight.
Spec == Init /\ [][Next]_vars

NoneInFlight == \A p \in Procs : h[p].pc = "idle"

SeqNext ==
    \/ Tick
    \/ \E p \in Procs : NoneInFlight /\ Call(p)
    \/ \E p \in Procs : Step(p)

\* One handler at a time: a call is made only when none is in flight.
SpecSeq == Init /\ [][SeqNext]_vars

\* The steps of updateVideoProgress after its first await.
WriteStep(p) ==
    \/ UpdGet(p)
    \/ UpdPut(p)
    \/ Refresh1(p)
    \/ Refresh2(p)
    \/ StoreFails(p)

PlayerNext ==
    \/ Tick
    \/ PlayerMount
    \/ PlayerApiLoaded
    \/ PlayerReady
    \/ PlayerSwitch
    \/ PlayerUnmount
    \/ \E p \in Procs : IntervalFires(p)
    \/ \E p \in Procs : WriteStep(p)

\* The video page is opened on a course that has videos.
InitPlayer == Init /\ \E v \in VideoIds : Shown(PageCourse, v)

\* The video page: the player's interval is what calls updateVideoProgress.
SpecPlayer == InitPlayer /\ [][PlayerNext]_vars

PageNext ==
    \/ Tick
    \/ PlayerMount
    \/ PlayerApiLoaded
    \/ PlayerReady
    \/ PlayerSwitch
    \/ PlayerUnmount
    \/ HandleTimeUpdate

\* The later video page: the player's interval calls its handleTimeUpdate.
SpecPage == InitPlayer /\ [][PageNext]_vars

\* --------------------------------------------- what the claims speak of
\* The operations that write progress.
ProgressWrites == {"updateVideoProgress", "markVideoCompleted"}

\* This step is a step of the handler of p.
StepOf(p) == h'[p] # h[p]

\* This step puts the record h'[p].arg into videoProgress.
Upserts(p) == h[p].pc # "upd_get" /\ h'[p].pc = "upd_get"

\* This step calls addCourse with a Course of id c.
AddCourseCalled(c) ==
    /\ calls' = calls + 1
    /\ \/ h' = h /\ last'.op = "addCourse" /\ last'.id = c
       \/ \E p \in Procs : /\ h[p].pc = "idle"
                           /\ h'[p].pc = "add_put"
                           /\ h'[p].arg.id = c

\* What is derived for video v of course c and for course c from the store.
DerivedOf(ctbl, ptbl, v, c) ==
    [video |-> VideoStatus(GetVideoProgress(ptbl, v, c)),
     course |-> IF ctbl[c] = NoCourse THEN NoCourse
                ELSE WithProgress(ctbl[c], GetVideoProgressByCourse(ptbl, c)).progress]

\* C1: the list the provider holds never shows a course with more
\* completed videos than it has videos.
C1_CompletedAtMostTotal ==
    \A i \in 1..Len(courses) :
        courses[i].progress.completedVideos <= courses[i].progress.totalVideos

\* C2: the videoProgress table holds at most one record for each pair
\* (videoId, courseId), and getVideoProgress of a pair is the record last
\* put for it and not deleted since, or nothing.
C2_OneRecordPerPair ==
    /\ \A i, j \in 1..Len(dbProgress) :
          (dbProgress[i].videoId = dbProgress[j].videoId
           /\ dbProgress[i].courseId = dbProgress[j].courseId) => i = j
    /\ \A k \in VideoIds \X CourseIds :
          GetVideoProgress(dbProgress, k[1], k[2]) = lastWritten[k]

\* C2, its case: a write has just replaced a different record of its pair
\* while the table holds a record of another pair.
C2_Witness ==
    \E p \in Procs :
        /\ h[p].pc = "upd_get"
        /\ pre[p].progress # NoProgress
        /\ pre[p].progress # h[p].arg
        /\ GetVideoProgress(dbProgress, h[p].arg.videoId, h[p].arg.courseId) = h[p].arg
        /\ Len(dbProgress) > 1

\* C3: no step of a progress write, overlapping writes included, lowers
\* the stored lastWatched of any course.
C3_LastWatchedNeverDecreases ==
    [][\A p \in Procs :
          (StepOf(p) /\ (h[p].op \in ProgressWrites \/ h'[p].op \in ProgressWrites))
          => \A c \in CourseIds :
                LastWatchedOf(dbCourses', c) >= LastWatchedOf(dbCourses, c)]_vars

\* C3, its case: two progress writes of one course are in flight, one has
\* stamped the course and the other still holds the course as it read it
\* before that stamp.
C3_Witness ==
    \E p, q \in Procs :
        /\ p # q
        /\ h[p].op \in ProgressWrites
        /\ h[q].op \in ProgressWrites
        /\ h[p].pc = "refresh1"
        /\ h[q].pc = "upd_put"
        /\ h[q].course # NoCourse
        /\ h[q].course.id = h[p].arg.courseId
        /\ h[q].course.lastWatched < dbCourses[h[q].course.id].lastWatched

\* C4: putting a record the table already holds changes neither what is
\* derived for its video (status, progress) nor what is derived for its
\* course (completedVideos, percentage, currentVideoId).
C4_ReapplyChangesNothing ==
    [][\A p \in Procs :
          (Upserts(p) /\ h'[p].arg \in Range(dbProgress))
          => \A v \in VideoIds, c \in CourseIds :
                DerivedOf(dbCourses', dbProgress', v, c)
                    = DerivedOf(dbCourses, dbProgress, v, c)]_vars

\* C4, its case: a write has put the very record it found stored for its
\* pair when it was called.
C4_Witness ==
    \E p \in Procs :
        /\ h[p].pc = "upd_get"
        /\ pre[p].progress = h[p].arg
        /\ h[p].arg.completed

\* C5: addCourse called with a Course whose id is in the store settles at
\* once with false and leaves the courses table as it was.
C5_DuplicateRejected ==
    [][\A c \in CourseIds :
          (AddCourseCalled(c) /\ dbCourses[c] # NoCourse)
          => /\ h' = h
             /\ last'.result = "false"
             /\ dbCourses' = dbCourses]_vars

\* C5, its case: addCourse has returned false, no store step having
\* failed, for a stored course that has a lastWatched (which the Course
\* passed in never has).
C5_Witness ==
    /\ last.op = "addCourse"
    /\ last.result = "false"
    /\ ~last.failed
    /\ dbCourses[last.id] # NoCourse
    /\ dbCourses[last.id].lastWatched # NoTime

\* C6: when db.deleteCourse(id) completes, no handler overlapping it, the
\* store holds no Course id and no VideoProgress of course id, and the
\* records of other courses and the other courses are as they were before
\* each of its steps.
C6_DeleteCascades ==
    [][\A p \in Procs :
          (StepOf(p) /\ (h[p].op = "deleteCourse" \/ h'[p].op = "deleteCourse")
                     /\ ~last'.failed)
          => LET c == IF h[p].op = "deleteCourse"
                      THEN h[p].arg.courseId ELSE h'[p].arg.courseId
             IN  /\ dbCourses'[c] = NoCourse
                 /\ \A d \in CourseIds \ {c} : dbCourses'[d] = dbCourses[d]
                 /\ SelectSeq(dbProgress', LAMBDA x : x.courseId # c)
                      = SelectSeq(dbProgress, LAMBDA x : x.courseId # c)
                 /\ h'[p].pc = "idle" =>
                      \A i \in 1..Len(dbProgress') : dbProgress'[i].courseId # c]_vars

\* C6, its case: db.deleteCourse has completed for a course the provider's
\* list still shows with progress; the store holds neither the course nor
\* a record of it, and still holds a record of another course.
C6_Witness ==
    /\ last.op = "deleteCourse"
    /\ last.result = "resolved"
    /\ dbCourses[last.id] = NoCourse
    /\ \E i \in 1..Len(courses) :
          courses[i].id = last.id /\ courses[i].progress.currentVideoId # "-"
    /\ \A i \in 1..Len(dbProgress) : dbProgress[i].courseId # last.id
    /\ Len(dbProgress) > 0

\* C7: when a store step of a progress write fails, the record of its pair
\* and the lastWatched of its course are what the write found when it
\* was called.
C7_AllOrNothing ==
    [][\A p \in Procs :
          (StepOf(p) /\ h[p].op \in ProgressWrites /\ h'[p].pc = "idle"
                     /\ last'.failed)
          => /\ GetVideoProgress(dbProgress', h[p].arg.videoId, h[p].arg.courseId)
                  = pre[p].progress
             /\ LastWatchedOf(dbCourses', h[p].arg.courseId)
                  = pre[p].lastWatched]_vars

\* C8: a progress write one of whose store steps failed settles rejected.
C8_FailureRejects ==
    (last.op \in ProgressWrites /\ last.failed) => last.result = "rejected"

\* C9: the record a progress write puts has lastWatched equal to the clock
\* at the put.
C9_StoredStampIsNow ==
    [][\A p \in Procs :
          Upserts(p)
          => GetVideoProgress(dbProgress', h'[p].arg.videoId,
                              h'[p].arg.courseId).lastWatched = now]_vars

\* C10: when a progress write of a stored course settles, no store step
\* having failed, the lastWatched of the course equals the lastWatched of
\* the record the write stored.
C10_CourseStampIsRecordStamp ==
    [][\A p \in Procs :
          (StepOf(p) /\ h[p].op \in ProgressWrites /\ h[p].pc = "refresh2"
                     /\ ~last'.failed /\ dbCourses'[h[p].arg.courseId] # NoCourse)
          => dbCourses'[h[p].arg.courseId].lastWatched = h[p].arg.lastWatched]_vars

\* This step is a tick of the player's interval whose record reaches
\* updateVideoProgress and is put by the handler of p.
TickPut(p) ==
    /\ player.interval # NoInterval
    /\ calls' = calls + 1
    /\ Upserts(p)

\* The threshold of a record, in whole numbers: currentTime >= 0.95 x duration.
Watched95(r) == r.currentTime * 100 >= 95 * r.duration

\* C11: the record a tick of the interval emits has completed = true
\* exactly when its currentTime is at least 0.95 x its duration, and once
\* it is put the status derived for its video is COMPLETED exactly in that
\* case.
C11_TickCompletedAt95 ==
    [][\A p \in Procs :
          TickPut(p) =>
             LET r == h'[p].arg
             IN  /\ r.completed <=> Watched95(r)
                 /\ VideoStatus(GetVideoProgress(dbProgress', r.videoId,
                                                 r.courseId)).status = "completed"
                      <=> Watched95(r)]_vars

\* C11, its case: a tick has put a record at 95 of 100, completed, over a
\* record of the same video at 94 of 100, not completed.
C11_Witness ==
    \E p \in Procs :
        /\ player.interval # NoInterval
        /\ h[p].pc = "upd_get"
        /\ h[p].arg.currentTime = 95
        /\ h[p].arg.completed
        /\ pre[p].progress # NoProgress
        /\ pre[p].progress.currentTime = 94
        /\ ~pre[p].progress.completed
        /\ GetVideoProgress(dbProgress, h[p].arg.videoId, h[p].arg.courseId) = h[p].arg

\* The Video v of the stored course c.
StoredVideo(c, v) ==
    LET vs == SelectSeq(dbCourses[c].videos, LAMBDA x : x.id = v)
    IN  vs[1]

\* This step is markVideoCompleted going on after db.getVideoProgress, no
\* store operation failing.
MarkGoesOn(p) ==
    /\ h[p].pc = "mark_put"
    /\ h'[p] # h[p]
    /\ ~(h'[p].pc = "idle" /\ last'.failed)

\* C12: when markVideoCompleted(courseId, videoId) goes on after its read
\* and videoId is a video of the stored course courseId, the store then
\* holds for the pair a record with currentTime = the video's duration and
\* completed = true, whatever record it held, and the status derived from
\* it is COMPLETED.
C12_MarkStoresCompleted ==
    [][\A p \in Procs :
          (MarkGoesOn(p) /\ Shown(h[p].arg.courseId, h[p].arg.videoId))
          => LET r == GetVideoProgress(dbProgress', h[p].arg.videoId,
                                       h[p].arg.courseId)
             IN  /\ r # NoProgress
                 /\ r.currentTime
                      = StoredVideo(h[p].arg.courseId, h[p].arg.videoId).duration
                 /\ r.completed
                 /\ VideoStatus(r).status = "completed"]_vars

\* The function f has been evaluated on its input.
Done(f) == fn.f = f /\ fn.done

\* The record of the store for the pair getVideo was asked about.
AskedRecord == GetVideoProgress(fn.in.dbProgress, fn.in.videoId, fn.in.courseId)

\* C13: for a video getVideo finds, the status follows the record of the
\* pair: no record gives NOT_STARTED and no progress; a completed record
\* gives COMPLETED and progress 100; a record not completed gives
\* IN_PROGRESS when its currentTime > 0 and NOT_STARTED when it is 0.
C13_StatusRule ==
    (Done("getVideo") /\ fn.out # NoVideo)
    => LET r == AskedRecord
       IN  /\ r = NoProgress
                => fn.out.status = "not-started" /\ fn.out.progress = -1
           /\ (r # NoProgress /\ r.completed)
                => fn.out.status = "completed" /\ fn.out.progress = 100
           /\ (r # NoProgress /\ ~r.completed /\ r.currentTime > 0)
                => fn.out.status = "in-progress"
           /\ (r # NoProgress /\ ~r.completed /\ r.currentTime = 0)
                => fn.out.status = "not-started"

C13_Witness ==
    /\ Done("getVideo")
    /\ fn.out # NoVideo
    /\ AskedRecord # NoProgress
    /\ ~AskedRecord.completed
    /\ AskedRecord.currentTime = 0
    /\ fn.out.status = "not-started"

\* C14: the progress getVideo reports for an IN_PROGRESS video is an
\* integer from 0 to 100, for every record of the store, those with
\* currentTime > duration or duration = 0 too.
C14_ProgressWithin100 ==
    (Done("getVideo") /\ fn.out # NoVideo /\ fn.out.status = "in-progress")
    => fn.out.progress \in 0..100

\* a / b rounded to the nearest integer, halves upwards, for a >= 0, b > 0.
Rounded(a, b) == (2 * a + b) \div (2 * b)

\* C15: the percentage of a course is round(100 * completedVideos /
\* totalVideos), and 0 when the course has no videos.
C15_PercentageRounded ==
    Done("percentage")
    => fn.out = IF fn.in[2] = 0 THEN 0 ELSE Rounded(100 * fn.in[1], fn.in[2])

\* C16: currentVideoId is the videoId of a record of the course whose
\* lastWatched no other record of the course exceeds, and it is undefined
\* exactly when the course has no records.
C16_CurrentVideoIsLatest ==
    Done("courseProgress")
    => /\ fn.out.currentVideoId = "-" <=> Len(fn.in) = 0
       /\ Len(fn.in) > 0
            => \E i \in 1..Len(fn.in) :
                  /\ fn.in[i].videoId = fn.out.currentVideoId
                  /\ \A j \in 1..Len(fn.in) :
                        fn.in[i].lastWatched >= fn.in[j].lastWatched

C16_Witness ==
    /\ Done("courseProgress")
    /\ Len(fn.in) = 3
    /\ fn.in[1].lastWatched = 0
    /\ fn.in[2].lastWatched = 1
    /\ fn.in[3].lastWatched = 2
    /\ fn.out.currentVideoId = "v3"

\* C17: in the course list the courses with a lastWatched come before
\* those without, in descending lastWatched; the courses without one are
\* in descending createdAt; and the list holds the courses of the store.
C17_ListOrder ==
    Done("sortedCourses")
    => /\ Len(fn.out) = Cardinality(fn.in)
       /\ {[id |-> x.id, createdAt |-> x.createdAt, lastWatched |-> x.lastWatched] :
              x \in Range(fn.out)}
            = {[id |-> x.id, createdAt |-> x.createdAt,
                lastWatched |-> x.lastWatched] : x \in fn.in}
       /\ \A i, j \in 1..Len(fn.out) :
             i < j
             => LET a == fn.out[i]
                    b == fn.out[j]
                IN  /\ a.lastWatched = NoTime => b.lastWatched = NoTime
                    /\ (a.lastWatched # NoTime /\ b.lastWatched # NoTime)
                         => a.lastWatched >= b.lastWatched
                    /\ (a.lastWatched = NoTime /\ b.lastWatched = NoTime)
                         => a.createdAt >= b.createdAt

C17_Witness ==
    /\ Done("sortedCourses")
    /\ fn.out[1].lastWatched # NoTime
    /\ fn.out[2].lastWatched = NoTime
    /\ fn.out[3].lastWatched = NoTime
    /\ fn.out[2].createdAt > fn.out[3].createdAt
    /\ fn.out[1].createdAt < fn.out[3].createdAt

\* The positions of video v in the videos of the stored course asked about.
PositionsAsked ==
    LET course == fn.in.dbCourses[fn.in.courseId]
    IN  IF course = NoCourse THEN {}
        ELSE {i \in 1..Len(course.videos) : course.videos[i].id = fn.in.videoId}

\* C18: getNextVideo(courseId, currentVideoId) returns the video after
\* currentVideoId in the course's videos, with the status, progress and
\* currentTime of that video's record; it returns nothing when
\* currentVideoId is the last video, is not in the course, or the course
\* does not exist.
C18_NextVideo ==
    Done("getNextVideo")
    => LET course == fn.in.dbCourses[fn.in.courseId]
       IN  IF PositionsAsked = {} \/ Len(course.videos) \in PositionsAsked
           THEN fn.out = NoVideo
           ELSE \E i \in PositionsAsked :
                  LET next == course.videos[i + 1]
                      st == VideoStatus(GetVideoProgress(fn.in.dbProgress, next.id,
                                                         fn.in.courseId))
                  IN  /\ fn.out # NoVideo
                      /\ fn.out.id = next.id
                      /\ fn.out.duration = next.duration
                      /\ fn.out.status = st.status
                      /\ fn.out.progress = st.progress
                      /\ fn.out.currentTime = st.currentTime

C18_Witness ==
    /\ Done("getNextVideo")
    /\ fn.in.videoId = "v1"
    /\ fn.in.courses = << >>
    /\ fn.in.courseId = "c1"
    /\ fn.in.dbCourses["c1"] # NoCourse
    /\ Len(fn.in.dbCourses["c1"].videos) = 3
    /\ fn.out # NoVideo
    /\ fn.out.id = "v2"
    /\ fn.out.status = "in-progress"
    /\ fn.out.progress = 50

\* url has a parameter list (in any case) with a value: & or ?, then
\* list=, then a character other than &.
HasListParameter(url) ==
    \E i \in 1..Len(url) :
        /\ url[i] \in {"?", "&"}
        /\ i + 6 <= Len(url)
        /\ \A k \in 1..5 :
              url[i + k] \in <<{"l", "L"}, {"i", "I"}, {"s", "S"},
                               {"t", "T"}, {"="}>>[k]
        /\ url[i + 6] # "&"

\* C19: getCourseFromPlaylist on a URL with no list parameter fails with
\* the invalid-URL error, makes no request and produces no Course.
C19_InvalidUrl ==
    (Done("getCourseFromPlaylist") /\ ~HasListParameter(fn.in.url))
    => /\ fn.out.error = "Invalid playlist URL"
       /\ fn.out.requests = 0
       /\ fn.out.course = NoCourse

C19_Witness ==
    /\ Done("getCourseFromPlaylist")
    /\ fn.in.service = Answering
    /\ fn.in.url = <<"h", "/", "w", "?", "v", "=", "P", "L", "1", "&",
                     "p", "l", "a", "y", "l", "i", "s", "t", "=", "P", "L", "1">>
    /\ fn.out.error = "Invalid playlist URL"
    /\ fn.out.requests = 0

\* The videoId and courseId of the video view, as an interval holds them.
ViewNow == [videoId |-> player.videoId, courseId |-> player.courseId]

\* This step is a tick of the interval: the only call the video view makes.
Ticks == calls' = calls + 1 /\ player.interval # NoInterval

ProgressWriteStep(p) ==
    StepOf(p) /\ (h[p].op \in ProgressWrites \/ h'[p].op \in ProgressWrites)

\* The course the progress write of this step is for.
ParentOf(p) == IF h[p].op \in ProgressWrites THEN h[p].arg.courseId
               ELSE h'[p].arg.courseId

\* C21: a step of a progress write leaves every Course of the store other
\* than the parent as it is, and changes in the parent Course nothing but
\* lastWatched: its id, createdAt and videos, in their order, stay.
C21_OnlyLastWatched ==
    [][\A p \in Procs :
          ProgressWriteStep(p)
          => \A c \in CourseIds :
                IF c # ParentOf(p) THEN dbCourses'[c] = dbCourses[c]
                ELSE IF dbCourses[c] = NoCourse THEN dbCourses'[c] = NoCourse
                ELSE /\ dbCourses'[c] # NoCourse
                     /\ dbCourses'[c].id = dbCourses[c].id
                     /\ dbCourses'[c].createdAt = dbCourses[c].createdAt
                     /\ dbCourses'[c].videos = dbCourses[c].videos]_vars

\* C21, its case: a progress write has put its course back with a new
\* lastWatched, the course being older than the write and another course
\* being stored.
C21_Witness ==
    \E p \in Procs :
        /\ h[p].op \in ProgressWrites
        /\ h[p].pc = "refresh1"
        /\ dbCourses[h[p].arg.courseId] # NoCourse
        /\ dbCourses[h[p].arg.courseId].lastWatched = now
        /\ dbCourses[h[p].arg.courseId].createdAt < now
        /\ pre[p].lastWatched # now
        /\ Len(dbCourses[h[p].arg.courseId].videos) > 0
        /\ \E c \in CourseIds : c # h[p].arg.courseId /\ dbCourses[c] # NoCourse

\* C22: a tick the player emits for a pair leaves in the store, for that
\* pair, the record of the tick: created if there was none, replaced in
\* full if there was one.
C22_TickIsStored ==
    [][Ticks => GetVideoProgress(dbProgress', fn'.in.videoId, fn'.in.courseId)
                   = fn'.in]_vars

\* The operations that end in refreshCourses' setCourses and are progress
\* writes or refreshes.
WritesAndRefreshes == ProgressWrites \cup {"refreshCourses"}

\* The list refreshCourses derives from the store as it is.
ViewOf(ctbl, ptbl) == RefreshedCourses(GetAllCourses(ctbl), ptbl)

\* C23: when the setCourses of a progress write or refresh is the step after
\* which nothing is in flight, nothing but progress writes and refreshes
\* having run beside it and no store operation having failed, the
\* provider's list is the one derived from the store as it then is.
C23_ListIsCurrentView ==
    [][\A p \in Procs :
          (/\ StepOf(p)
           /\ h[p].pc = "refresh2"
           /\ h[p].op \in WritesAndRefreshes
           /\ last.op \in WritesAndRefreshes \cup {"-"}
           /\ ~last.failed
           /\ ~last'.failed
           /\ \A q \in Procs : h'[q].pc = "idle")
          => courses' = ViewOf(dbCourses', dbProgress')]_vars

\* C24: when a request for the playlist, for a page of its items or for a
\* batch of durations that getCourseFromPlaylist makes gets no 2xx, the
\* submission ends with an error and addCourse is called with no Course,
\* so none is inserted.
C24_FailedFetchAddsNothing ==
    (Done("onSubmit") /\ \E i \in 1..fn.out.requests : ~fn.in.service.ok[i])
    => /\ fn.out.error \in {"Failed to fetch playlist info",
                            "Failed to fetch playlist items",
                            "Failed to fetch video details"}
       /\ fn.out.added = NoCourse

\* C24, its case: the playlist, its two pages and the first batch of
\* durations are answered, the second batch is not.
C24_Witness ==
    /\ Done("onSubmit")
    /\ fn.in.service.keyOk
    /\ fn.in.service.pages = <<MaxResults, 1>>
    /\ \A i \in 1..4 : fn.in.service.ok[i]
    /\ ~fn.in.service.ok[5]
    /\ fn.out.requests = 5
    /\ fn.out.error = "Failed to fetch video details"
    /\ fn.out.added = NoCourse

\* C25: a step of a progress write for a video of course A leaves, for
\* every other course B and every video id, that of the write too, the
\* record of the pair, the status derived from it and what is derived for
\* B (its completed count among it) as they were.
C25_OtherCourseUntouched ==
    [][\A p \in Procs :
          ProgressWriteStep(p)
          => \A c \in CourseIds \ {ParentOf(p)}, v \in VideoIds :
                /\ GetVideoProgress(dbProgress', v, c)
                     = GetVideoProgress(dbProgress, v, c)
                /\ DerivedOf(dbCourses', dbProgress', v, c)
                     = DerivedOf(dbCourses, dbProgress, v, c)]_vars

\* C25, its case: a record of v1 in c1, not completed, has been put while
\* c2 holds a completed record of v1.
C25_Witness ==
    \E p \in Procs :
        /\ h[p].pc = "upd_get"
        /\ h[p].arg.videoId = "v1"
        /\ h[p].arg.courseId = "c1"
        /\ ~h[p].arg.completed
        /\ GetVideoProgress(dbProgress, "v1", "c1") = h[p].arg
        /\ GetVideoProgress(dbProgress, "v1", "c2") # NoProgress
        /\ GetVideoProgress(dbProgress, "v1", "c2").completed
        /\ dbCourses["c2"] # NoCourse

\* The store holds for (v, c) the record markVideoCompleted builds: its
\* currentTime is its duration and it is completed.
MarkedComplete(v, c) ==
    LET r == GetVideoProgress(dbProgress, v, c)
    IN  r # NoProgress /\ r.completed /\ r.currentTime = r.duration

\* C26: a video that markVideoCompleted has marked complete has the status
\* COMPLETED after every step that follows while its course is stored,
\* whatever progress writes are made for it.
C26_CompletedStays ==
    [][\A v \in VideoIds, c \in CourseIds :
          (MarkedComplete(v, c) /\ dbCourses'[c] # NoCourse)
          => VideoStatus(GetVideoProgress(dbProgress', v, c)).status
                = "completed"]_vars

\* C27: a step of a progress write taken when its course is not in the
\* store, deleteCourse having removed it while the write was in flight,
\* does not put the Course back.
C27_WriteDoesNotRecreate ==
    [][\A p \in Procs :
          (/\ ProgressWriteStep(p)
           /\ h[p].pc = "upd_put"
           /\ dbCourses[ParentOf(p)] = NoCourse)
          => dbCourses'[ParentOf(p)] = NoCourse]_vars

\* C28: of two addCourse calls for one id, the second being the only call
\* made since the first, at most one returns true: when the last call to
\* settle was an addCourse of the id that returned true, the other does
\* not return true.
C28_AtMostOneTrue ==
    [][\A p \in Procs :
          (/\ StepOf(p)
           /\ h[p].op = "addCourse"
           /\ last.op = "addCourse"
           /\ last.id = h[p].arg.id
           /\ last.result = "true"
           /\ calls = 2
           /\ h'[p].pc = "idle")
          => last'.result = "false"]_vars

\* C29: the percentage of a course is 100 only when all its videos, at
\* least one, are completed, and it is below 100 when fewer than all are.
C29_HundredOnlyWhenAll ==
    Done("percentage")
    => /\ fn.out = 100 => (fn.in[1] = fn.in[2] /\ fn.in[2] > 0)
       /\ fn.in[1] < fn.in[2] => fn.out < 100

\* C30: timeAgo of a date less than a minute back is 'Just now', and of a
\* date a minute or more back it is a count of at least 1 with its unit.
C30_NoZeroCount ==
    Done("timeAgo")
    => IF fn.in.secs < 60 THEN fn.out = JustNow
       ELSE fn.out # JustNow /\ fn.out.count >= 1

====
